---- MODULE Spec2Model ----
(***************************************************************************)
(* DataMerger.merge of src/merger/data_merger.py as a state machine: one   *)
(* action per statement of merge's try block, each action the whole helper *)
(* it calls, and the except clause as an action of its own.  The pandas    *)
(* and rapidfuzz calls the helpers make are modelled by what they do on    *)
(* frames with a default RangeIndex (pandas >= 2.1.1, < 3: strings are     *)
(* held in object columns).                                                *)
(***************************************************************************)
EXTENDS Integers, Sequences, FiniteSets, TLC

(***************************************************************************)
(* Cell values.  A value is null (NaN / None), an integer, a float num/den,*)
(* a string (a sequence of one-character strings) or a list of strings.    *)
(***************************************************************************)
Null == [kind |-> "null", num |-> 0, den |-> 1, chars |-> <<>>]

IntV(n) == [kind |-> "int", num |-> n, den |-> 1, chars |-> <<>>]

FloatV(n, d) == [kind |-> "float", num |-> n, den |-> d, chars |-> <<>>]

StrV(s) == [kind |-> "str", num |-> 0, den |-> 1, chars |-> s]

ListV(s) == [kind |-> "list", num |-> 0, den |-> 1, chars |-> s]

isna(v) == v.kind = "null"

IsNumber(v) == v.kind \in {"int", "float"}

\* pandas.api.types.is_integer, as iloc applies it to a scalar key
is_integer(v) == v.kind = "int"

\* Python ==: numbers compare by value (1 == 1.0), everything else as is
PyEq(v, w) ==
  IF IsNumber(v) /\ IsNumber(w) THEN v.num * w.den = w.num * v.den ELSE v = w

\* Python > on two numbers; a comparison with NaN is False
PyGt(v, w) == IsNumber(v) /\ IsNumber(w) /\ v.num * w.den > w.num * v.den

PyLt(v, w) == PyGt(w, v)

Max(x, y) == IF x >= y THEN x ELSE y

Range(s) == {s[i] : i \in DOMAIN s}

\* str.lower on one character of the modelled alphabet
LowerChar(c) ==
  CASE c = "A" -> "a"
    [] c = "B" -> "b"
    [] c = "C" -> "c"
    [] OTHER -> c

LowerChars(s) == [i \in DOMAIN s |-> LowerChar(s[i])]

\* Series.str.lower on one element: a non-string element becomes NaN
str_lower(v) == IF v.kind = "str" THEN StrV(LowerChars(v.chars)) ELSE Null

DigitChar(n) ==
  CASE n = 0 -> "0" [] n = 1 -> "1" [] n = 2 -> "2" [] n = 3 -> "3"
    [] n = 4 -> "4" [] n = 5 -> "5" [] n = 6 -> "6" [] n = 7 -> "7"
    [] n = 8 -> "8" [] OTHER -> "9"

RECURSIVE Digits(_)
Digits(n) == IF n < 10 THEN <<DigitChar(n)>> ELSE Digits(n \div 10) \o <<DigitChar(n % 10)>>

\* Python str() of a cell, as _find_similar_matches passes it to fuzz.ratio
py_str(v) ==
  CASE v.kind = "str" -> v.chars
    [] v.kind = "int" -> Digits(v.num)
    [] v.kind = "float" -> Digits(v.num \div v.den) \o <<".">> \o Digits(((v.num * 10) \div v.den) % 10)
    [] v.kind = "null" -> <<"n", "a", "n">>
    [] OTHER -> v.chars

(***************************************************************************)
(* Column names.  pd.merge(suffixes=('_a','_b')) appends a suffix to a     *)
(* non-key column both frames have; names are atoms here, so the           *)
(* concatenation is a table over the modelled column names.                *)
(***************************************************************************)
BaseNames == {"id", "uid", "val", "ts", "idx", "note"}

with_suffix(c, side) ==
  CASE c = "id" -> (IF side = "_a" THEN "id_a" ELSE "id_b")
    [] c = "uid" -> (IF side = "_a" THEN "uid_a" ELSE "uid_b")
    [] c = "val" -> (IF side = "_a" THEN "val_a" ELSE "val_b")
    [] c = "ts" -> (IF side = "_a" THEN "ts_a" ELSE "ts_b")
    [] c = "idx" -> (IF side = "_a" THEN "idx_a" ELSE "idx_b")
    [] OTHER -> (IF side = "_a" THEN "note_a" ELSE "note_b")

\* col.endswith('_a') or col.endswith('_b')
endswith_a_or_b(c) == \E b \in BaseNames : c \in {with_suffix(b, "_a"), with_suffix(b, "_b")}

(***************************************************************************)
(* Frames: a set of column names and the rows in order, each row a         *)
(* function from the columns to values.  The index is the default          *)
(* RangeIndex: the label of row i (1-based here) is i - 1.                 *)
(***************************************************************************)
Frame(cols, rows) == [cols |-> cols, rows |-> rows]

\* pd.DataFrame([]): no columns, no rows
EmptyFrame == Frame({}, <<>>)

\* the frame of a list of Series: the columns are the union of their indexes
FrameOfSeries(rows) ==
  LET cols == UNION {DOMAIN rows[i] : i \in DOMAIN rows}
  IN Frame(cols, [i \in DOMAIN rows |->
                    [c \in cols |-> IF c \in DOMAIN rows[i] THEN rows[i][c] ELSE Null]])

\* a column holds strings in an object column; an empty column is object too
is_object_dtype(df, c) ==
  \/ df.rows = <<>>
  \/ \E i \in DOMAIN df.rows : df.rows[i][c].kind \in {"str", "list"}

(***************************************************************************)
(* Exceptions and results of calls that may raise.                         *)
(***************************************************************************)
NoExc == [cls |-> "", msg |-> <<>>]

Exc(cls, msg) == [cls |-> cls, msg |-> msg]

Ok(v) == [ok |-> TRUE, val |-> v, exc |-> NoExc]

Raise(cls, msg) == [ok |-> FALSE, val |-> <<>>, exc |-> Exc(cls, msg)]

\* Optional values: None is the empty sequence, a present value a singleton
None == <<>>

Some(x) == <<x>>

(***************************************************************************)
(* MergeConfig and the strategies of ConflictResolutionStrategy.           *)
(***************************************************************************)
ConflictResolutionStrategy ==
  {"KEEP_NEWEST", "KEEP_OLDEST", "KEEP_SOURCE_A", "KEEP_SOURCE_B",
   "KEEP_MOST_COMPLETE", "COMBINE", "CUSTOM"}

\* similarity_threshold: float = 0.9, in hundredths
DefaultSimilarityThreshold == 90

MergeConfig(keys, strategy, ts, resolver, cs, similar, mappings, ignored) ==
  [key_fields |-> keys, conflict_strategy |-> strategy, timestamp_field |-> ts,
   custom_resolver |-> resolver, case_sensitive |-> cs, merge_similar |-> similar,
   similarity_threshold |-> FloatV(DefaultSimilarityThreshold, 100),
   field_mappings |-> mappings, ignored_fields |-> ignored]

(***************************************************************************)
(* The helpers of DataMerger, in the order merge calls them.               *)
(***************************************************************************)
\* _to_dataframe: a DataFrame is copied, a dict converted, anything else refused
to_dataframe(data) ==
  IF data.type \in {"DataFrame", "dict"}
    THEN Ok(Frame(data.cols, data.rows))
    ELSE Raise("ValueError", <<"Unsupported data type:", data.type>>)

\* whether _to_dataframe hands back the object it was given: data.copy() and
\* pd.DataFrame(data) both build a new frame
to_dataframe_returns_input(data) == FALSE

\* whether df.rename(columns=mappings) hands back the frame it was called on:
\* without inplace=True it returns a new frame
rename_returns_self(df, mappings) == FALSE

\* _apply_field_mappings: df.rename(columns=mappings); a name the mapping does
\* not hold is kept
renamed(c, mappings) == IF c \in DOMAIN mappings THEN mappings[c] ELSE c

apply_field_mappings(df, mappings) ==
  LET cols == {renamed(c, mappings) : c \in df.cols}
      old(n) == CHOOSE c \in df.cols : renamed(c, mappings) = n
  IN Frame(cols, [i \in DOMAIN df.rows |-> [n \in cols |-> df.rows[i][old(n)]]])

\* _validate_merge_keys: the keys in order, source A before source B
RECURSIVE validate_keys_from(_, _, _, _)
validate_keys_from(keys, k, cols_a, cols_b) ==
  IF k > Len(keys) THEN Ok(None)
  ELSE IF keys[k] \notin cols_a
    THEN Raise("ValidationError", <<"Merge key", keys[k], "not found in source", "A">>)
  ELSE IF keys[k] \notin cols_b
    THEN Raise("ValidationError", <<"Merge key", keys[k], "not found in source", "B">>)
  ELSE validate_keys_from(keys, k + 1, cols_a, cols_b)

\* mutant: only source A is checked
validate_merge_keys_source_a_only(df_a, df_b, config) ==
  validate_keys_from(config.key_fields, 1, df_a.cols, df_a.cols)

validate_merge_keys(df_a, df_b, config) ==
  validate_keys_from(config.key_fields, 1, df_a.cols, df_b.cols)

\* df[key] of a column the frame lacks
missing_keys(df, keys) == {k \in DOMAIN keys : keys[k] \notin df.cols}

first_missing(df, keys) ==
  keys[CHOOSE k \in missing_keys(df, keys) : \A j \in missing_keys(df, keys) : k <= j]

KeyError(name) == Raise("KeyError", <<"'", name, "'">>)

\* df[key] = df[key].str.lower() when the column is of object dtype
lower_key(df, key) ==
  IF is_object_dtype(df, key)
    THEN Frame(df.cols, [i \in DOMAIN df.rows |->
                           [df.rows[i] EXCEPT ![key] = str_lower(df.rows[i][key])]])
    ELSE df

RECURSIVE lower_keys(_, _, _)
lower_keys(df, keys, k) ==
  IF k > Len(keys) THEN df ELSE lower_keys(lower_key(df, keys[k]), keys, k + 1)

\* _prepare_merge_keys: the working frames, keys lower-cased unless case_sensitive
prepare_merge_keys(df_a, df_b, config) ==
  IF config.case_sensitive THEN Ok(<<df_a, df_b>>)
  ELSE IF missing_keys(df_a, config.key_fields) # {}
    THEN KeyError(first_missing(df_a, config.key_fields))
  ELSE IF missing_keys(df_b, config.key_fields) # {}
    THEN KeyError(first_missing(df_b, config.key_fields))
  ELSE Ok(<<lower_keys(df_a, config.key_fields, 1), lower_keys(df_b, config.key_fields, 1)>>)

(***************************************************************************)
(* Matching.                                                               *)
(***************************************************************************)
\* length of the longest common subsequence of two strings
RECURSIVE LCS(_, _)
LCS(s, t) ==
  IF s = <<>> \/ t = <<>> THEN 0
  ELSE IF Head(s) = Head(t) THEN 1 + LCS(Tail(s), Tail(t))
  ELSE Max(LCS(Tail(s), t), LCS(s, Tail(t)))

\* rapidfuzz.fuzz.ratio(s, t) / 100 as the fraction <<n, d>>: the normalised
\* Indel similarity 2 * LCS / (len(s) + len(t)), 1 for two empty strings
fuzz_ratio(s, t) ==
  IF Len(s) + Len(t) = 0 THEN <<1, 1>> ELSE <<2 * LCS(s, t), Len(s) + Len(t)>>

\* the score of one key field of one pair of rows
key_score(df_a, row_a, row_b, key) ==
  IF is_object_dtype(df_a, key)
    THEN fuzz_ratio(py_str(row_a[key]), py_str(row_b[key]))
    ELSE IF PyEq(row_a[key], row_b[key]) THEN <<1, 1>> ELSE <<0, 1>>

\* sum(scores) as a fraction
RECURSIVE sum_scores(_, _, _, _, _)
sum_scores(df_a, row_a, row_b, keys, k) ==
  IF k > Len(keys) THEN <<0, 1>>
  ELSE LET s == key_score(df_a, row_a, row_b, keys[k])
           r == sum_scores(df_a, row_a, row_b, keys, k + 1)
       IN <<s[1] * r[2] + r[1] * s[2], s[2] * r[2]>>

\* avg_score = sum(scores) / len(scores)
avg_score(df_a, row_a, row_b, keys) ==
  LET s == sum_scores(df_a, row_a, row_b, keys, 1) IN <<s[1], s[2] * Len(keys)>>

\* mutant: avg_score > config.similarity_threshold
meets_threshold_exclusive(avg, threshold) == avg[1] * threshold.den > threshold.num * avg[2]

\* avg_score >= config.similarity_threshold
meets_threshold(avg, threshold) == avg[1] * threshold.den >= threshold.num * avg[2]

\* the pairs of row positions in the order of the two nested loops
pairs_in_order(na, nb) ==
  [k \in 1..(na * nb) |-> <<((k - 1) \div nb) + 1, ((k - 1) % nb) + 1>>]

\* _find_similar_matches: every pair whose average score meets the threshold
find_similar_matches(df_a, df_b, config) ==
  LET keys == config.key_fields
      pairs == pairs_in_order(Len(df_a.rows), Len(df_b.rows))
      avg(p) == avg_score(df_a, df_a.rows[p[1]], df_b.rows[p[2]], keys)
      hit(p) == meets_threshold(avg(p), config.similarity_threshold)
      hits == SelectSeq(pairs, hit)
  IN IF missing_keys(df_a, keys) # {} THEN KeyError(first_missing(df_a, keys))
     ELSE IF missing_keys(df_b, keys) # {} THEN KeyError(first_missing(df_b, keys))
     ELSE IF Len(keys) = 0 /\ Len(pairs) > 0
       THEN Raise("ZeroDivisionError", <<"division by zero">>)
     ELSE IF hits = <<>> THEN Ok(EmptyFrame)
     ELSE Ok(Frame({"idx_a", "idx_b", "similarity"},
                   [m \in DOMAIN hits |->
                      [idx_a |-> IntV(hits[m][1] - 1), idx_b |-> IntV(hits[m][2] - 1),
                       similarity |-> FloatV(avg(hits[m])[1], avg(hits[m])[2])]]))

\* the columns of pd.merge(df_a, df_b, on=keys, how='inner',
\* suffixes=('_a', '_b'), indicator=True)
joined_cols(df_a, df_b, keys) ==
  LET both == (df_a.cols \cap df_b.cols) \ keys
  IN keys \cup {with_suffix(c, "_a") : c \in both} \cup {with_suffix(c, "_b") : c \in both}
       \cup ((df_a.cols \cup df_b.cols) \ (both \cup keys)) \cup {"_merge"}

\* one row of the join
joined_row(df_a, df_b, keys, row_a, row_b) ==
  LET both == (df_a.cols \cap df_b.cols) \ keys
  IN [n \in joined_cols(df_a, df_b, keys) |->
        IF n \in keys THEN row_a[n]
        ELSE IF n = "_merge" THEN StrV(<<"b", "o", "t", "h">>)
        ELSE IF \E c \in both : n = with_suffix(c, "_a")
          THEN row_a[CHOOSE c \in both : n = with_suffix(c, "_a")]
        ELSE IF \E c \in both : n = with_suffix(c, "_b")
          THEN row_b[CHOOSE c \in both : n = with_suffix(c, "_b")]
        ELSE IF n \in df_a.cols THEN row_a[n] ELSE row_b[n]]

\* the inner join: the pairs equal on every key, in the order of the left rows
exact_matches(df_a, df_b, config) ==
  LET keys == Range(config.key_fields)
      pairs == pairs_in_order(Len(df_a.rows), Len(df_b.rows))
      hit(p) == \A k \in keys : PyEq(df_a.rows[p[1]][k], df_b.rows[p[2]][k])
      hits == SelectSeq(pairs, hit)
  IN IF missing_keys(df_a, config.key_fields) # {}
       THEN KeyError(first_missing(df_a, config.key_fields))
     ELSE IF missing_keys(df_b, config.key_fields) # {}
       THEN KeyError(first_missing(df_b, config.key_fields))
     ELSE Ok(Frame(joined_cols(df_a, df_b, keys),
                   [m \in DOMAIN hits |->
                      joined_row(df_a, df_b, keys, df_a.rows[hits[m][1]], df_b.rows[hits[m][2]])]))

\* _find_matches; rapidfuzz is imported inside _find_similar_matches and is
\* not among the install_requires of setup.py
find_matches(df_a, df_b, config, rapidfuzz_installed) ==
  IF config.merge_similar
    THEN IF rapidfuzz_installed
           THEN find_similar_matches(df_a, df_b, config)
           ELSE Raise("ModuleNotFoundError", <<"No module named 'rapidfuzz'">>)
    ELSE exact_matches(df_a, df_b, config)

(***************************************************************************)
(* Conflict detection and resolution.                                      *)
(***************************************************************************)
\* pd.isna(v) used as a truth value: the isna of a list of two or more
\* elements is an array, whose truth value is ambiguous
isna_raises(v) == v.kind = "list" /\ Len(v.chars) >= 2

\* not pd.isna(val_a) and not pd.isna(val_b) and val_a != val_b
conflict_test_raises(va, vb) == isna_raises(va) \/ (~isna(va) /\ isna_raises(vb))

is_conflict(va, vb) == ~isna(va) /\ ~isna(vb) /\ ~PyEq(va, vb)

\* _find_conflicts: the fields of record_a that record_b has too, with two
\* non-null, unequal values; field |-> (val_a, val_b)
find_conflicts(record_a, record_b) ==
  LET shared == DOMAIN record_a \cap DOMAIN record_b
  IN IF \E f \in shared : conflict_test_raises(record_a[f], record_b[f])
       THEN Raise("ValueError", <<"The truth value of an array with more than one element is ambiguous">>)
       ELSE Ok([f \in {g \in shared : is_conflict(record_a[g], record_b[g])} |->
                  <<record_a[f], record_b[f]>>])

\* mutant: the update is made on a copy that is thrown away
update_discarded(resolved, other) == resolved

\* Series.update: the non-NA values of other, on the labels self already has
update(resolved, other) ==
  [f \in DOMAIN resolved |->
     IF f \in DOMAIN other /\ ~isna(other[f]) THEN other[f] ELSE resolved[f]]

\* Series.combine_first: self where it is non-null, other elsewhere, on the
\* union of the labels
combine_first(record_a, record_b) ==
  [f \in DOMAIN record_a \cup DOMAIN record_b |->
     IF f \in DOMAIN record_a /\ ~isna(record_a[f]) THEN record_a[f]
     ELSE IF f \in DOMAIN record_b THEN record_b[f]
     ELSE record_a[f]]

\* mutant: the non-null fields are counted
non_null_count(record) == Cardinality({f \in DOMAIN record : ~isna(record[f])})

\* record.isna().sum()
null_count(record) == Cardinality({f \in DOMAIN record : isna(record[f])})

\* a sequence holding the elements of a set once each
RECURSIVE SetToSeq(_)
SetToSeq(S) ==
  IF S = {} THEN <<>> ELSE LET x == CHOOSE y \in S : TRUE IN <<x>> \o SetToSeq(S \ {x})

\* the COMBINE branch on one conflicting field
combined(va, vb) ==
  IF va.kind = "list" /\ vb.kind = "list"
    THEN ListV(SetToSeq(Range(va.chars) \cup Range(vb.chars)))
  ELSE IF va.kind = "str" /\ vb.kind = "str"
    THEN StrV(va.chars \o <<" ", "|", " ">> \o vb.chars)
  ELSE va

\* the resolvers a caller passes as custom_resolver
CustomResolvers == {"take_b", "raising"}

custom_resolver(name, record_a, record_b, conflicts) ==
  IF name = "take_b" THEN Ok(record_b) ELSE Raise("RuntimeError", <<"resolver failed">>)

\* a < or > between a string and a number
compare_raises(v, w) ==
  \/ (v.kind \in {"str", "list"} /\ IsNumber(w))
  \/ (IsNumber(v) /\ w.kind \in {"str", "list"})

\* mutant: >= and <= in place of > and <
timestamp_test_inclusive(record_a, record_b, field, newest) ==
  IF field \notin DOMAIN record_b THEN KeyError(field)
  ELSE IF field \notin DOMAIN record_a THEN KeyError(field)
  ELSE IF compare_raises(record_b[field], record_a[field])
    THEN Raise("TypeError", <<"'>' not supported between instances">>)
  ELSE Ok(IF newest THEN ~PyLt(record_b[field], record_a[field])
                    ELSE ~PyGt(record_b[field], record_a[field]))

\* the timestamp comparison of KEEP_NEWEST / KEEP_OLDEST: record_b's field is
\* read first; TRUE in val when record_b is to overwrite
timestamp_test(record_a, record_b, field, newest) ==
  IF field \notin DOMAIN record_b THEN KeyError(field)
  ELSE IF field \notin DOMAIN record_a THEN KeyError(field)
  ELSE IF compare_raises(record_b[field], record_a[field])
    THEN Raise("TypeError", <<"'>' not supported between instances">>)
  ELSE Ok(IF newest THEN PyGt(record_b[field], record_a[field])
                    ELSE PyLt(record_b[field], record_a[field]))

\* if config.timestamp_field:  (None and '' are false)
truthy(opt) == opt # None /\ opt[1] # ""

\* mutant: the strategy is not consulted and record A is kept
apply_resolution_strategy_keeps_a(record_a, record_b, conflicts, config) == Ok(record_a)

\* _apply_resolution_strategy
apply_resolution_strategy(record_a, record_b, conflicts, config) ==
  LET resolved == record_a
      strategy == config.conflict_strategy
  IN CASE strategy \in {"KEEP_NEWEST", "KEEP_OLDEST"} ->
            IF truthy(config.timestamp_field)
              THEN LET t == timestamp_test(record_a, record_b, config.timestamp_field[1],
                                           strategy = "KEEP_NEWEST")
                   IN IF ~t.ok THEN t
                      ELSE IF t.val THEN Ok(update(resolved, record_b))
                      ELSE Ok(resolved)
              ELSE Ok(resolved)
       [] strategy = "KEEP_SOURCE_A" -> Ok(resolved)
       [] strategy = "KEEP_SOURCE_B" -> Ok(update(resolved, record_b))
       [] strategy = "KEEP_MOST_COMPLETE" ->
            IF null_count(record_b) < null_count(record_a)
              THEN Ok(update(resolved, record_b))
              ELSE Ok(resolved)
       [] strategy = "COMBINE" ->
            Ok([f \in DOMAIN resolved |->
                  IF f \in DOMAIN conflicts
                    THEN combined(conflicts[f][1], conflicts[f][2])
                    ELSE resolved[f]])
       [] strategy = "CUSTOM" ->
            IF config.custom_resolver # None
              THEN custom_resolver(config.custom_resolver[1], record_a, record_b, conflicts)
              ELSE Ok(resolved)
       [] OTHER -> Ok(resolved)

(***************************************************************************)
(* The loop over the matches, the unmatched rows and the clean-up.         *)
(***************************************************************************)
\* DataFrame.iterrows yields each row as one Series of one dtype: the row of
\* a frame of integer and float columns only is a float64 Series
all_numeric(frame) ==
  \A i \in DOMAIN frame.rows : \A c \in frame.cols :
    frame.rows[i][c].kind \in {"int", "float", "null"}

has_float(frame) ==
  \E i \in DOMAIN frame.rows : \E c \in frame.cols :
    frame.rows[i][c].kind \in {"float", "null"}

as_float(v) == IF v.kind = "int" THEN FloatV(v.num, 1) ELSE v

iterrows(frame) ==
  IF all_numeric(frame) /\ has_float(frame)
    THEN [i \in DOMAIN frame.rows |-> [c \in frame.cols |-> as_float(frame.rows[i][c])]]
    ELSE frame.rows

\* df.iloc[key] with a scalar key
iloc(df, key) ==
  LET n == Len(df.rows)
      pos == IF key.num < 0 THEN n + key.num ELSE key.num
  IN IF ~is_integer(key)
       THEN Raise("TypeError", <<"Cannot index by location index with a non-integer key">>)
     ELSE IF pos < 0 \/ pos >= n
       THEN Raise("IndexError", <<"single positional indexer is out-of-bounds">>)
     ELSE Ok(df.rows[pos + 1])

\* the records of one match: match['idx_a'] and df_a.iloc first, then B's
match_records(df_a, df_b, match) ==
  IF "idx_a" \notin DOMAIN match THEN KeyError("idx_a")
  ELSE LET ra == iloc(df_a, match["idx_a"])
       IN IF ~ra.ok THEN ra
          ELSE IF "idx_b" \notin DOMAIN match THEN KeyError("idx_b")
          ELSE LET rb == iloc(df_b, match["idx_b"])
               IN IF ~rb.ok THEN rb ELSE Ok(<<ra.val, rb.val>>)

\* one entry of result.conflicts
conflict_entry(record_a, conflicts, resolved, config) ==
  [key_values |-> [k \in Range(config.key_fields) |-> record_a[k]],
   fields |-> conflicts,
   resolution |-> resolved]

\* the state of the loop of _resolve_conflicts: the resolved records and the
\* entries appended to result.conflicts so far, and the exception that ended it
LoopState(ok, resolved, conflicts, exc) ==
  [ok |-> ok, resolved |-> resolved, conflicts |-> conflicts, exc |-> exc]

RECURSIVE resolve_from(_, _, _, _, _, _)
resolve_from(df_a, df_b, rows, config, k, acc) ==
  IF k > Len(rows) THEN acc
  ELSE
    LET recs == match_records(df_a, df_b, rows[k])
    IN IF ~recs.ok THEN LoopState(FALSE, acc.resolved, acc.conflicts, recs.exc)
       ELSE
         LET record_a == recs.val[1]
             record_b == recs.val[2]
             found == find_conflicts(record_a, record_b)
         IN IF ~found.ok THEN LoopState(FALSE, acc.resolved, acc.conflicts, found.exc)
            ELSE IF DOMAIN found.val # {}
              THEN LET r == apply_resolution_strategy(record_a, record_b, found.val, config)
                   IN IF ~r.ok THEN LoopState(FALSE, acc.resolved, acc.conflicts, r.exc)
                      ELSE resolve_from(df_a, df_b, rows, config, k + 1,
                             LoopState(TRUE, Append(acc.resolved, r.val),
                                       Append(acc.conflicts,
                                              conflict_entry(record_a, found.val, r.val, config)),
                                       NoExc))
              ELSE resolve_from(df_a, df_b, rows, config, k + 1,
                     LoopState(TRUE, Append(acc.resolved, combine_first(record_a, record_b)),
                               acc.conflicts, NoExc))

\* _resolve_conflicts: val is pd.DataFrame(resolved_data)
resolve_conflicts(df_a, df_b, matches, config) ==
  resolve_from(df_a, df_b, iterrows(matches), config, 1, LoopState(TRUE, <<>>, <<>>, NoExc))

\* df[~df.index.isin(set(matches[col]))]: the rows whose label no match names
unmatched(df, matches, col) ==
  LET matched_idx == {matches.rows[m][col] : m \in DOMAIN matches.rows}
      keep(i) == ~(\E v \in matched_idx : PyEq(IntV(i - 1), v))
      kept == SelectSeq([i \in DOMAIN df.rows |-> i], keep)
  IN Frame(df.cols, [j \in DOMAIN kept |-> df.rows[kept[j]]])

\* pd.concat of frames: the union of the columns, the rows in order
RECURSIVE concat_rows(_, _)
concat_rows(frames, cols) ==
  IF frames = <<>> THEN <<>>
  ELSE LET f == Head(frames)
       IN [i \in DOMAIN f.rows |->
             [c \in cols |-> IF c \in f.cols THEN f.rows[i][c] ELSE Null]]
          \o concat_rows(Tail(frames), cols)

concat(frames) ==
  LET cols == UNION {frames[i].cols : i \in DOMAIN frames}
  IN Frame(cols, concat_rows(frames, cols))

\* _handle_unmatched
handle_unmatched(matched_data, df_a, df_b, matches, config) ==
  IF "idx_a" \notin matches.cols THEN KeyError("idx_a")
  ELSE IF "idx_b" \notin matches.cols THEN KeyError("idx_b")
  ELSE Ok(concat(<<matched_data, unmatched(df_a, matches, "idx_a"),
                   unmatched(df_b, matches, "idx_b")>>))

\* DataFrame.drop(columns=...)
drop_columns(df, names) ==
  Frame(df.cols \ names,
        [i \in DOMAIN df.rows |-> [c \in df.cols \ names |-> df.rows[i][c]]])

\* mutant: only the suffixed columns are dropped
cleanup_merged_data_suffixes_only(df, ignored_fields) ==
  drop_columns(df, {c \in df.cols : endswith_a_or_b(c)})

\* _cleanup_merged_data: the ignored fields, then the columns ending in _a or
\* _b; reset_index renumbers the rows, which a frame here holds by position
cleanup_merged_data(df, ignored_fields) ==
  LET kept == drop_columns(df, ignored_fields \cap df.cols)
  IN drop_columns(kept, {c \in kept.cols : endswith_a_or_b(c)})

\* mutant: every match is counted as a resolved conflict
merge_stats_counts_matches(final_data, matches, conflicts, df_a, df_b) ==
  [total_records |-> Len(final_data.rows),
   matches_found |-> Len(matches.rows),
   conflicts_resolved |-> Len(matches.rows),
   source_a_only |-> Len(df_a.rows) - Len(matches.rows),
   source_b_only |-> Len(df_b.rows) - Len(matches.rows)]

\* the stats dictionary of merge
merge_stats(final_data, matches, conflicts, df_a, df_b) ==
  [total_records |-> Len(final_data.rows),
   matches_found |-> Len(matches.rows),
   conflicts_resolved |-> Len(conflicts),
   source_a_only |-> Len(df_a.rows) - Len(matches.rows),
   source_b_only |-> Len(df_b.rows) - Len(matches.rows)]

(***************************************************************************)
(* The inputs of a call.                                                   *)
(***************************************************************************)
MaxRowsA == 1

MaxRowsB == 2

KeyValues == {StrV(<<"a", "b">>), StrV(<<"A", "b">>)}

\* the values a column of source A / source B holds; a key of source A may be
\* null, and idx holds row positions
ColumnValues(side, c) ==
  CASE c = "id" -> IF side = "A" THEN KeyValues \cup {Null} ELSE KeyValues
    [] c = "uid" -> {StrV(<<"a", "b">>)}
    [] c = "idx" -> {IntV(0), IntV(1)}
    [] c = "val" -> IF side = "A" THEN {StrV(<<"x">>), StrV(<<"y">>)} ELSE {StrV(<<"y">>)}
    [] c = "note_a" -> {StrV(<<"n">>)}
    [] OTHER -> {Null}

Schemas == {{"id", "val"}, {"id", "val", "idx"}, {"uid"}}

\* the schemas of a side: source A may also come with a field of its own
\* whose name ends in _a
SchemasOf(side) ==
  IF side = "A" THEN Schemas \cup {{"id", "val", "idx", "note_a"}} ELSE Schemas

Records(side, cols) ==
  {r \in [cols -> UNION {ColumnValues(side, c) : c \in cols}] :
     \A c \in cols : r[c] \in ColumnValues(side, c)}

Tables(side, n) ==
  UNION {UNION {{[type |-> IF side = "A" THEN "DataFrame" ELSE "dict",
                  cols |-> cols, rows |-> rows] : rows \in [1..k -> Records(side, cols)]}
                : k \in 0..n}
         : cols \in SchemasOf(side)}

\* a source that is neither a DataFrame nor a dict
Unsupported == [type |-> "list", cols |-> {}, rows |-> <<>>]

SourcesA == Tables("A", MaxRowsA) \cup {Unsupported}

SourcesB == Tables("B", MaxRowsB) \cup {Unsupported}

NoMappings == [c \in {} |-> ""]

FieldMappings == {NoMappings, [c \in {"uid"} |-> "id"]}

IgnoredFields == {{}, {"val"}}

\* strategy, timestamp_field, custom_resolver
StrategyParams ==
  ({"KEEP_NEWEST", "KEEP_OLDEST"} \X {None, Some("ts")} \X {None})
    \cup ({"KEEP_SOURCE_A", "KEEP_SOURCE_B", "KEEP_MOST_COMPLETE", "COMBINE"} \X {None} \X {None})
    \cup ({"CUSTOM"} \X {None} \X ({None} \cup {Some(r) : r \in CustomResolvers}))

\* the key_fields of the fuzzy calls: a string key, and a string key with an
\* integer key
KeyFieldLists == {<<"id">>, <<"id", "idx">>}

\* the similarity_threshold of the fuzzy calls: the default and one half
SimilarityThresholds == {FloatV(DefaultSimilarityThreshold, 100), FloatV(1, 2)}

\* the configurations of the calls: every strategy without mappings and
\* ignored fields in exact mode, the default strategy elsewhere, and in fuzzy
\* mode the key lists and thresholds above
Configs ==
  {MergeConfig(<<"id">>, sp[1], sp[2], sp[3], cs, FALSE, NoMappings, {}) :
     sp \in StrategyParams, cs \in BOOLEAN}
    \cup {MergeConfig(<<"id">>, "KEEP_NEWEST", None, None, cs, similar, m, ig) :
            cs \in BOOLEAN, similar \in BOOLEAN, m \in FieldMappings, ig \in IgnoredFields}
    \cup {[MergeConfig(keys, "KEEP_NEWEST", None, None, cs, TRUE, NoMappings, {})
              EXCEPT !.similarity_threshold = t] :
            keys \in KeyFieldLists, t \in SimilarityThresholds, cs \in BOOLEAN}

(***************************************************************************)
(* The state of one call of merge.                                         *)
(***************************************************************************)
VARIABLES
  pc,                  \* the statement of merge that runs next
  source_a, source_b,  \* the caller's sources
  merge_config,        \* the caller's MergeConfig
  rapidfuzz_installed, \* whether the import in _find_similar_matches succeeds
  df_a, df_b,          \* the working frames
  matches,             \* the frame _find_matches returned
  resolved_data,       \* the frame _resolve_conflicts returned
  final_data,          \* the frame of the last two steps
  result,              \* the MergeResult
  raised,              \* the exception the try block raised, if any
  steps,               \* the helpers called so far, in order
  aliased,             \* the sides whose working frame is the caller's own object
  record_a, record_b,  \* one matched pair, for the loop body taken alone
  pair_conflicts,      \* what _find_conflicts returned for the pair
  resolution,          \* what the loop body made of the pair
  calls,               \* the frames of the calls made on one DataMerger instance
  heap,                \* the MergeResult objects built so far, by reference
  log,                 \* what the logger of the instance has been given
  events,              \* the calls and returns on the instance, in order
  processing           \* the frame of a call of DataProcessor.process

pair == <<record_a, record_b, pair_conflicts, resolution>>

\* a DataMerger instance with several calls of merge on it, and a call of the
\* process method it inherits
instance == <<calls, heap, log, events, processing>>

vars == <<pc, source_a, source_b, merge_config, rapidfuzz_installed, df_a, df_b,
          matches, resolved_data, final_data, result, raised, steps, aliased, pair,
          instance>>

NoRecord == [f \in {} |-> Null]

\* MergeResult(): the defaults of the dataclass
MergeResult ==
  [success |-> TRUE, merged_data |-> None, conflicts |-> <<>>,
   stats |-> [k \in {} |-> 0], errors |-> <<>>, warnings |-> <<>>]

\* the calls on one instance
Calls == {1, 2}

\* the frame of a call that has not been made: no local is bound
IdleCall ==
  [pc |-> "idle", source_a |-> Unsupported, source_b |-> Unsupported,
   merge_config |-> MergeConfig(<<"id">>, "KEEP_NEWEST", None, None, FALSE, TRUE, NoMappings, {}),
   rapidfuzz_installed |-> TRUE, df_a |-> EmptyFrame, df_b |-> EmptyFrame,
   matches |-> EmptyFrame, resolved_data |-> EmptyFrame, final_data |-> EmptyFrame,
   result |-> 0, raised |-> NoExc]

\* ProcessingResult(success=...): __post_init__ makes the lists and the
\* metadata empty
ProcessingResult(success) ==
  [success |-> success, data |-> None, errors |-> <<>>, warnings |-> <<>>,
   metadata |-> [k \in {} |-> ""]]

\* the frame of process before it is called
IdleProcess ==
  [pc |-> "idle", data |-> None, cleaned_data |-> None, processed_data |-> None,
   result |-> ProcessingResult(FALSE), raised |-> NoExc, trace |-> <<>>]

\* DataMerger(): the instance holds its config and its logger, no result
InstanceInit ==
  /\ calls = [k \in Calls |-> IdleCall]
  /\ heap = <<>>
  /\ log = <<>>
  /\ events = <<>>
  /\ processing = IdleProcess

Init ==
  /\ InstanceInit
  /\ pc = "idle"
  /\ source_a = Unsupported
  /\ source_b = Unsupported
  /\ merge_config = MergeConfig(<<"id">>, "KEEP_NEWEST", None, None, FALSE, TRUE, NoMappings, {})
  /\ rapidfuzz_installed = TRUE
  /\ df_a = EmptyFrame
  /\ df_b = EmptyFrame
  /\ matches = EmptyFrame
  /\ resolved_data = EmptyFrame
  /\ final_data = EmptyFrame
  /\ result = MergeResult
  /\ raised = NoExc
  /\ steps = <<>>
  /\ aliased = {}
  /\ record_a = NoRecord
  /\ record_b = NoRecord
  /\ pair_conflicts = Ok(NoRecord)
  /\ resolution = Ok(NoRecord)

inputs == <<source_a, source_b, merge_config, rapidfuzz_installed, pair>>

\* a statement of the try block raises: control passes to the except clause
Throw(e) == pc' = "except" /\ raised' = e

\* merge is called; line 79 builds the result
CallMerge ==
  /\ pc = "idle"
  /\ \E a \in SourcesA, b \in SourcesB, config \in Configs, rf \in BOOLEAN :
       /\ (~config.merge_similar => rf)
       /\ source_a' = a
       /\ source_b' = b
       /\ merge_config' = config
       /\ rapidfuzz_installed' = rf
  /\ result' = MergeResult
  /\ aliased' = {}
  /\ pc' = "to_dataframe"
  /\ UNCHANGED <<df_a, df_b, matches, resolved_data, final_data, raised, steps, pair>>
  /\ UNCHANGED instance

\* lines 83-84
ToDataFrame ==
  /\ pc = "to_dataframe"
  /\ steps' = Append(steps, "to_dataframe")
  /\ LET a == to_dataframe(source_a)
         b == to_dataframe(source_b)
     IN IF ~a.ok THEN Throw(a.exc) /\ UNCHANGED <<df_a, df_b>>
        ELSE IF ~b.ok THEN Throw(b.exc) /\ df_a' = a.val /\ UNCHANGED df_b
        ELSE df_a' = a.val /\ df_b' = b.val /\ pc' = "apply_field_mappings" /\ UNCHANGED raised
  /\ aliased' = {side \in {"a", "b"} :
                   to_dataframe_returns_input(IF side = "a" THEN source_a ELSE source_b)}
  /\ UNCHANGED <<inputs, matches, resolved_data, final_data, result>>
  /\ UNCHANGED instance

\* lines 87-88
ApplyFieldMappings ==
  /\ pc = "apply_field_mappings"
  /\ steps' = Append(steps, "apply_field_mappings")
  /\ df_a' = apply_field_mappings(df_a, merge_config.field_mappings)
  /\ df_b' = apply_field_mappings(df_b, merge_config.field_mappings)
  /\ aliased' = {side \in aliased :
                   rename_returns_self(IF side = "a" THEN df_a ELSE df_b,
                                       merge_config.field_mappings)}
  /\ pc' = "validate_merge_keys"
  /\ UNCHANGED <<inputs, matches, resolved_data, final_data, result, raised>>
  /\ UNCHANGED instance

\* line 91
ValidateMergeKeys ==
  /\ pc = "validate_merge_keys"
  /\ steps' = Append(steps, "validate_merge_keys")
  /\ LET v == validate_merge_keys(df_a, df_b, merge_config)
     IN IF ~v.ok THEN Throw(v.exc) ELSE pc' = "prepare_merge_keys" /\ UNCHANGED raised
  /\ UNCHANGED <<inputs, aliased, df_a, df_b, matches, resolved_data, final_data, result>>
  /\ UNCHANGED instance

\* df[key] = ... assigns a column of the working frame; the caller's source
\* sees the assignment when the working frame is the caller's own object
assigned_through(source, df, shared) ==
  IF shared THEN [source EXCEPT !.cols = df.cols, !.rows = df.rows] ELSE source

\* mutant: the key columns are assigned in the caller's frames
PrepareMergeKeys_on_caller_frames ==
  /\ pc = "prepare_merge_keys"
  /\ steps' = Append(steps, "prepare_merge_keys")
  /\ LET p == prepare_merge_keys(df_a, df_b, merge_config)
     IN IF ~p.ok THEN Throw(p.exc) /\ UNCHANGED <<df_a, df_b, source_a, source_b>>
        ELSE /\ df_a' = p.val[1]
             /\ df_b' = p.val[2]
             /\ source_a' = assigned_through(source_a, p.val[1], TRUE)
             /\ source_b' = assigned_through(source_b, p.val[2], TRUE)
             /\ pc' = "find_matches"
             /\ UNCHANGED raised
  /\ UNCHANGED <<merge_config, rapidfuzz_installed, pair, aliased, matches, resolved_data,
                 final_data, result>>
  /\ UNCHANGED instance

\* line 94; lines 173 and 175 assign the lower-cased key columns in place
PrepareMergeKeys ==
  /\ pc = "prepare_merge_keys"
  /\ steps' = Append(steps, "prepare_merge_keys")
  /\ LET p == prepare_merge_keys(df_a, df_b, merge_config)
     IN IF ~p.ok THEN Throw(p.exc) /\ UNCHANGED <<df_a, df_b, source_a, source_b>>
        ELSE /\ df_a' = p.val[1]
             /\ df_b' = p.val[2]
             /\ source_a' = assigned_through(source_a, p.val[1], "a" \in aliased)
             /\ source_b' = assigned_through(source_b, p.val[2], "b" \in aliased)
             /\ pc' = "find_matches"
             /\ UNCHANGED raised
  /\ UNCHANGED <<merge_config, rapidfuzz_installed, pair, aliased, matches, resolved_data,
                 final_data, result>>
  /\ UNCHANGED instance

\* line 97
FindMatches ==
  /\ pc = "find_matches"
  /\ steps' = Append(steps, "find_matches")
  /\ LET m == find_matches(df_a, df_b, merge_config, rapidfuzz_installed)
     IN IF ~m.ok THEN Throw(m.exc) /\ UNCHANGED matches
        ELSE matches' = m.val /\ pc' = "resolve_conflicts" /\ UNCHANGED raised
  /\ UNCHANGED <<inputs, aliased, df_a, df_b, resolved_data, final_data, result>>
  /\ UNCHANGED instance

\* lines 100-102; the entries the loop appended to result.conflicts before an
\* exception stay in the result
ResolveConflicts ==
  /\ pc = "resolve_conflicts"
  /\ steps' = Append(steps, "resolve_conflicts")
  /\ LET r == resolve_conflicts(df_a, df_b, matches, merge_config)
     IN /\ result' = [result EXCEPT !.conflicts = r.conflicts]
        /\ IF ~r.ok THEN Throw(r.exc) /\ UNCHANGED resolved_data
           ELSE /\ resolved_data' = FrameOfSeries(r.resolved)
                /\ pc' = "handle_unmatched"
                /\ UNCHANGED raised
  /\ UNCHANGED <<inputs, aliased, df_a, df_b, matches, final_data>>
  /\ UNCHANGED instance

\* lines 105-107
HandleUnmatched ==
  /\ pc = "handle_unmatched"
  /\ steps' = Append(steps, "handle_unmatched")
  /\ LET u == handle_unmatched(resolved_data, df_a, df_b, matches, merge_config)
     IN IF ~u.ok THEN Throw(u.exc) /\ UNCHANGED final_data
        ELSE final_data' = u.val /\ pc' = "cleanup_merged_data" /\ UNCHANGED raised
  /\ UNCHANGED <<inputs, aliased, df_a, df_b, matches, resolved_data, result>>
  /\ UNCHANGED instance

\* lines 110-112
CleanupMergedData ==
  /\ pc = "cleanup_merged_data"
  /\ steps' = Append(steps, "cleanup_merged_data")
  /\ final_data' = cleanup_merged_data(final_data, merge_config.ignored_fields)
  /\ pc' = "add_statistics"
  /\ UNCHANGED <<inputs, aliased, df_a, df_b, matches, resolved_data, result, raised>>
  /\ UNCHANGED instance

\* lines 115-123, and the return of line 130
AddStatistics ==
  /\ pc = "add_statistics"
  /\ result' = [result EXCEPT
                  !.stats = merge_stats(final_data, matches, result.conflicts, df_a, df_b),
                  !.merged_data = Some(final_data)]
  /\ pc' = "returned"
  /\ UNCHANGED <<inputs, aliased, df_a, df_b, matches, resolved_data, final_data, raised, steps>>
  /\ UNCHANGED instance

\* mutant: except ValidationError
except_ValidationError_only(cls) == cls = "ValidationError"

\* the classes "except Exception" catches: every class the helpers raise
\* derives from Exception
except_Exception(cls) ==
  cls \in {"ValueError", "ValidationError", "KeyError", "TypeError", "IndexError",
           "ZeroDivisionError", "ModuleNotFoundError", "RuntimeError"}

\* mutant: the clause records the error and leaves success as it is
ExceptClause_keeps_success ==
  /\ pc = "except"
  /\ result' = [result EXCEPT !.errors = Append(result.errors, raised.msg)]
  /\ pc' = "returned"
  /\ UNCHANGED <<inputs, aliased, df_a, df_b, matches, resolved_data, final_data, raised, steps>>
  /\ UNCHANGED instance

\* lines 125-128, and the return of line 130; an exception the clause does
\* not catch leaves merge
ExceptClause ==
  /\ pc = "except"
  /\ IF except_Exception(raised.cls)
       THEN /\ result' = [result EXCEPT !.success = FALSE,
                                        !.errors = Append(result.errors, raised.msg)]
            /\ pc' = "returned"
       ELSE /\ pc' = "propagated"
            /\ UNCHANGED result
  /\ UNCHANGED <<inputs, aliased, df_a, df_b, matches, resolved_data, final_data, raised, steps>>
  /\ UNCHANGED instance

Next ==
  \/ CallMerge
  \/ ToDataFrame
  \/ ApplyFieldMappings
  \/ ValidateMergeKeys
  \/ PrepareMergeKeys
  \/ FindMatches
  \/ ResolveConflicts
  \/ HandleUnmatched
  \/ CleanupMergedData
  \/ AddStatistics
  \/ ExceptClause

Spec == Init /\ [][Next]_vars

(***************************************************************************)
(* The body of the loop of _resolve_conflicts (lines 244-257) on one       *)
(* matched pair taken alone: the pair and the strategy are drawn from      *)
(* bounded sets and the body is applied once.                              *)
(***************************************************************************)
MaxTs == 2

\* the records of a pair: the key, a value, and optionally a timestamp and a
\* note; a field a record has may be null, and a note may be a list
PairFieldValues(f) ==
  CASE f = "id" -> {StrV(<<"a", "b">>)}
    [] f = "val" -> {StrV(<<"x">>), StrV(<<"y">>), Null}
    [] f = "ts" -> {IntV(t) : t \in 1..MaxTs} \cup {Null}
    [] OTHER -> {StrV(<<"n">>), Null, ListV(<<"p">>), ListV(<<"q">>), ListV(<<"p", "q">>)}

PairRecords ==
  UNION {{r \in [cols -> UNION {PairFieldValues(f) : f \in cols}] :
            \A f \in cols : r[f] \in PairFieldValues(f)}
         : cols \in {{"id", "val"} \cup opt : opt \in SUBSET {"ts", "note"}}}

PairConfigs ==
  {MergeConfig(<<"id">>, sp[1], sp[2], sp[3], FALSE, FALSE, NoMappings, {}) :
     sp \in StrategyParams}

InitPair ==
  /\ InstanceInit
  /\ pc = "pair"
  /\ record_a \in PairRecords
  /\ record_b \in PairRecords
  /\ merge_config \in PairConfigs
  /\ pair_conflicts = Ok(NoRecord)
  /\ resolution = Ok(NoRecord)
  /\ source_a = Unsupported
  /\ source_b = Unsupported
  /\ rapidfuzz_installed = TRUE
  /\ df_a = EmptyFrame
  /\ df_b = EmptyFrame
  /\ matches = EmptyFrame
  /\ resolved_data = EmptyFrame
  /\ final_data = EmptyFrame
  /\ result = MergeResult
  /\ raised = NoExc
  /\ steps = <<>>
  /\ aliased = {}

\* lines 244-257: the conflicts of the pair, then the strategy when there is
\* a conflict and combine_first when there is none
ResolvePair ==
  /\ pc = "pair"
  /\ LET found == find_conflicts(record_a, record_b)
     IN /\ pair_conflicts' = found
        /\ resolution' =
             IF ~found.ok THEN found
             ELSE IF DOMAIN found.val # {}
               THEN apply_resolution_strategy(record_a, record_b, found.val, merge_config)
               ELSE Ok(combine_first(record_a, record_b))
  /\ pc' = "pair_resolved"
  /\ UNCHANGED <<aliased, source_a, source_b, merge_config, rapidfuzz_installed, df_a, df_b, matches,
                 resolved_data, final_data, result, raised, steps, record_a, record_b>>
  /\ UNCHANGED instance

NextPair == ResolvePair

SpecPair == InitPair /\ [][NextPair]_vars

(***************************************************************************)
(* Several calls of merge on one DataMerger instance, one after another or *)
(* interleaved.  Each call has a frame of its own; line 79 gives it a      *)
(* MergeResult object of its own, held by reference; the instance holds    *)
(* the logger.  A step of a call is one statement of merge.                *)
(***************************************************************************)
\* the sources and configurations of the calls
CallSourcesA ==
  {t \in SourcesA : /\ t.cols = {"id", "val", "idx"}
                    /\ Len(t.rows) = 1
                    /\ t.rows[1]["id"] = StrV(<<"a", "b">>)
                    /\ t.rows[1]["idx"] = IntV(0)}

CallSourcesB ==
  {t \in SourcesB : /\ t.cols = {"id", "val", "idx"}
                    /\ Len(t.rows) = 1
                    /\ t.rows[1]["id"] = StrV(<<"a", "b">>)
                    /\ t.rows[1]["idx"] = IntV(0)}

CallConfigs ==
  {MergeConfig(<<"id">>, sp[1], sp[2], sp[3], FALSE, FALSE, NoMappings, {}) :
     sp \in {<<"KEEP_SOURCE_B", None, None>>, <<"KEEP_NEWEST", None, None>>,
             <<"CUSTOM", None, Some("raising")>>}}

\* the frame of a call at its first statement
entered(a, b, config, rf, ref) ==
  [IdleCall EXCEPT !.pc = "to_dataframe", !.source_a = a, !.source_b = b,
                   !.merge_config = config, !.rapidfuzz_installed = rf, !.result = ref]

\* mutant: every call is given the first object built
reused_object(objects) == 1

\* MergeResult() builds a new object: its reference is one no call holds
new_object(objects) == Len(objects) + 1

\* mutant: the list defaults are one list shared by the results
construct_result_shared_lists(objects) ==
  IF objects = <<>> THEN MergeResult
  ELSE [MergeResult EXCEPT !.conflicts = objects[Len(objects)].conflicts,
                           !.errors = objects[Len(objects)].errors]

\* the fields of a new MergeResult: the defaults, the lists built by
\* default_factory for this object
construct_result(objects) == MergeResult

\* the objects after the object of reference ref is bound to value
allocate(objects, ref, value) ==
  IF ref \in DOMAIN objects THEN [objects EXCEPT ![ref] = value] ELSE Append(objects, value)

\* what one statement does: the frame, the result object, the messages logged
StepResult(call, obj, logged) == [call |-> call, obj |-> obj, logged |-> logged]

raise_in(call, obj, exc) == StepResult([call EXCEPT !.pc = "except", !.raised = exc], obj, <<>>)

\* one statement of merge in the frame of a call, on the call's result object
merge_step(call, obj) ==
  CASE call.pc = "to_dataframe" ->
         LET a == to_dataframe(call.source_a)
             b == to_dataframe(call.source_b)
         IN IF ~a.ok THEN raise_in(call, obj, a.exc)
            ELSE IF ~b.ok THEN raise_in([call EXCEPT !.df_a = a.val], obj, b.exc)
            ELSE StepResult([call EXCEPT !.df_a = a.val, !.df_b = b.val,
                                         !.pc = "apply_field_mappings"], obj, <<>>)
    [] call.pc = "apply_field_mappings" ->
         StepResult([call EXCEPT
                       !.df_a = apply_field_mappings(call.df_a, call.merge_config.field_mappings),
                       !.df_b = apply_field_mappings(call.df_b, call.merge_config.field_mappings),
                       !.pc = "validate_merge_keys"], obj, <<>>)
    [] call.pc = "validate_merge_keys" ->
         LET v == validate_merge_keys(call.df_a, call.df_b, call.merge_config)
         IN IF ~v.ok THEN raise_in(call, obj, v.exc)
            ELSE StepResult([call EXCEPT !.pc = "prepare_merge_keys"], obj, <<>>)
    [] call.pc = "prepare_merge_keys" ->
         LET p == prepare_merge_keys(call.df_a, call.df_b, call.merge_config)
         IN IF ~p.ok THEN raise_in(call, obj, p.exc)
            ELSE StepResult([call EXCEPT !.df_a = p.val[1], !.df_b = p.val[2],
                                         !.pc = "find_matches"], obj, <<>>)
    [] call.pc = "find_matches" ->
         LET m == find_matches(call.df_a, call.df_b, call.merge_config, call.rapidfuzz_installed)
         IN IF ~m.ok THEN raise_in(call, obj, m.exc)
            ELSE StepResult([call EXCEPT !.matches = m.val, !.pc = "resolve_conflicts"], obj, <<>>)
    [] call.pc = "resolve_conflicts" ->
         LET r == resolve_conflicts(call.df_a, call.df_b, call.matches, call.merge_config)
             appended == [obj EXCEPT !.conflicts = obj.conflicts \o r.conflicts]
         IN IF ~r.ok THEN raise_in(call, appended, r.exc)
            ELSE StepResult([call EXCEPT !.resolved_data = FrameOfSeries(r.resolved),
                                         !.pc = "handle_unmatched"], appended, <<>>)
    [] call.pc = "handle_unmatched" ->
         LET u == handle_unmatched(call.resolved_data, call.df_a, call.df_b, call.matches,
                                   call.merge_config)
         IN IF ~u.ok THEN raise_in(call, obj, u.exc)
            ELSE StepResult([call EXCEPT !.final_data = u.val, !.pc = "cleanup_merged_data"],
                            obj, <<>>)
    [] call.pc = "cleanup_merged_data" ->
         StepResult([call EXCEPT
                       !.final_data = cleanup_merged_data(call.final_data,
                                                          call.merge_config.ignored_fields),
                       !.pc = "add_statistics"], obj, <<>>)
    [] call.pc = "add_statistics" ->
         StepResult([call EXCEPT !.pc = "returned"],
                    [obj EXCEPT
                       !.stats = merge_stats(call.final_data, call.matches, obj.conflicts,
                                             call.df_a, call.df_b),
                       !.merged_data = Some(call.final_data)], <<>>)
    [] call.pc = "except" ->
         IF except_Exception(call.raised.cls)
           THEN StepResult([call EXCEPT !.pc = "returned"],
                           [obj EXCEPT !.success = FALSE,
                                       !.errors = Append(obj.errors, call.raised.msg)],
                           <<call.raised.msg>>)
           ELSE StepResult([call EXCEPT !.pc = "propagated"], obj, <<>>)
    [] OTHER -> StepResult(call, obj, <<>>)

Left(call) == call.pc \in {"returned", "propagated"}

\* the variables of the one-call specification
single == <<pc, source_a, source_b, merge_config, rapidfuzz_installed, df_a, df_b, matches,
            resolved_data, final_data, result, raised, steps, aliased, pair>>

\* merge is called on the instance; line 79 builds the call's result
StartCall(k) ==
  /\ calls[k].pc = "idle"
  /\ \E a \in CallSourcesA, b \in CallSourcesB, config \in CallConfigs :
       LET ref == new_object(heap)
       IN /\ calls' = [calls EXCEPT ![k] = entered(a, b, config, TRUE, ref)]
          /\ heap' = allocate(heap, ref, construct_result(heap))
  /\ events' = Append(events, <<"call", k>>)
  /\ UNCHANGED <<log, single, processing>>

\* the call runs one statement of its try block (lines 83-123)
CallStep(k) ==
  /\ calls[k].pc \notin {"idle", "except", "returned", "propagated"}
  /\ \E r \in {merge_step(calls[k], heap[calls[k].result])} :
       /\ calls' = [calls EXCEPT ![k] = r.call]
       /\ heap' = [heap EXCEPT ![calls[k].result] = r.obj]
       /\ events' = IF Left(r.call) THEN Append(events, <<"return", k>>) ELSE events
  /\ UNCHANGED <<log, single, processing>>

\* the call runs its except clause (lines 125-128) and returns
CallExcept(k) ==
  /\ calls[k].pc = "except"
  /\ \E r \in {merge_step(calls[k], heap[calls[k].result])} :
       /\ calls' = [calls EXCEPT ![k] = r.call]
       /\ heap' = [heap EXCEPT ![calls[k].result] = r.obj]
       /\ log' = log \o r.logged
  /\ events' = Append(events, <<"return", k>>)
  /\ UNCHANGED <<single, processing>>

NextCalls == \E k \in Calls : StartCall(k) \/ CallStep(k) \/ CallExcept(k)

SpecCalls == Init /\ [][NextCalls]_vars

\* the result a call returns when it is the only call made on a new instance
RECURSIVE run(_, _)
run(call, obj) ==
  IF Left(call) THEN obj ELSE LET r == merge_step(call, obj) IN run(r.call, r.obj)

run_alone(a, b, config, rf) == run(entered(a, b, config, rf, 1), MergeResult)

(***************************************************************************)
(* The key preparation and the match step (lines 94 and 97) of an exact    *)
(* merge taken alone, on frames whose key column holds strings and         *)
(* integers: a column a caller builds from a list such as ['ab', 5] is of  *)
(* object dtype.                                                           *)
(***************************************************************************)
MaxKeyRows == 2

\* the key values of these frames
MixedKeyValues == {StrV(<<"a", "b">>), StrV(<<"A", "b">>), IntV(5), IntV(7)}

KeyedRecords(side) ==
  {r \in [{"id", "val"} -> MixedKeyValues \cup ColumnValues(side, "val")] :
     r["id"] \in MixedKeyValues /\ r["val"] \in ColumnValues(side, "val")}

\* the tables whose key column holds a string: the column is of object dtype
KeyedTables(side) ==
  UNION {{[type |-> IF side = "A" THEN "DataFrame" ELSE "dict",
           cols |-> {"id", "val"}, rows |-> rows] :
            rows \in {t \in [1..k -> KeyedRecords(side)] :
                        \E i \in 1..k : t[i]["id"].kind = "str"}}
         : k \in 1..MaxKeyRows}

\* the call has validated the keys of its two frames
InitMatch ==
  /\ InstanceInit
  /\ pc = "prepare_merge_keys"
  /\ source_a \in KeyedTables("A")
  /\ source_b \in KeyedTables("B")
  /\ merge_config \in {MergeConfig(<<"id">>, "KEEP_SOURCE_A", None, None, cs, FALSE, NoMappings, {}) :
                         cs \in BOOLEAN}
  /\ rapidfuzz_installed = TRUE
  /\ df_a = to_dataframe(source_a).val
  /\ df_b = to_dataframe(source_b).val
  /\ matches = EmptyFrame
  /\ resolved_data = EmptyFrame
  /\ final_data = EmptyFrame
  /\ result = MergeResult
  /\ raised = NoExc
  /\ steps = <<"to_dataframe", "apply_field_mappings", "validate_merge_keys">>
  /\ aliased = {}
  /\ record_a = NoRecord
  /\ record_b = NoRecord
  /\ pair_conflicts = Ok(NoRecord)
  /\ resolution = Ok(NoRecord)

NextMatch == PrepareMergeKeys \/ FindMatches

SpecMatch == InitMatch /\ [][NextMatch]_vars

(***************************************************************************)
(* DataProcessor.process of src/core/data_processor.py (lines 67-117): one *)
(* action per statement of the try block, the except clauses, and the      *)
(* finally block with its return.  _process_data is abstract and           *)
(* validate_data and clean_data depend on the configuration and the data:  *)
(* what they return or raise is drawn from the outcomes below.             *)
(***************************************************************************)
\* the exception classes of lines 17-27 and two builtin ones; KeyboardInterrupt
\* derives from BaseException only
is_subclass(cls, base) ==
  CASE base = "ValidationError" -> cls = "ValidationError"
    [] base = "ProcessingError" -> cls = "ProcessingError"
    [] base = "DataProcessingError" ->
         cls \in {"DataProcessingError", "ValidationError", "ProcessingError"}
    [] base = "Exception" ->
         cls \in {"DataProcessingError", "ValidationError", "ProcessingError", "TypeError"}
    [] OTHER -> TRUE

\* the data a caller passes to process
ProcessInputs == {None, Some("DataFrame"), Some("dict"), Some("list")}

\* validate_data: None is refused at line 143; other data passes or fails the
\* checks of the configuration, or a comparison of the range check raises
validate_data(data) ==
  IF data = None THEN {Raise("ValidationError", <<"Input data is None">>)}
  ELSE {Ok(None), Raise("ValidationError", <<"Missing required fields">>),
        Raise("TypeError", <<"'<' not supported between instances">>),
        Raise("KeyboardInterrupt", <<>>)}

\* clean_data: the cleaned data, or an exception of the pandas calls
clean_data(data) ==
  {Ok(data), Raise("TypeError", <<"unhashable type">>), Raise("KeyboardInterrupt", <<>>)}

\* _process_data of a subclass: a value, None, or an exception
process_data(data) ==
  {Ok(data), Ok(None)}
    \cup {Raise(cls, <<"failed">>) :
            cls \in {"ProcessingError", "ValidationError", "DataProcessingError", "TypeError",
                     "KeyboardInterrupt"}}

\* validate_output (lines 214-225)
validate_output(data) ==
  IF data = None THEN Raise("ValidationError", <<"Output data is None">>) ELSE Ok(None)

\* a statement of the try block has run: on an exception control passes to
\* the except clauses
Stepped(name, outcome, next) ==
  [processing EXCEPT !.trace = Append(@, name),
                     !.pc = IF outcome.ok THEN next ELSE "except",
                     !.raised = outcome.exc]

merging == <<single, calls, heap, log, events>>

\* lines 77-78
CallProcess ==
  /\ processing.pc = "idle"
  /\ \E data \in ProcessInputs :
       processing' = [IdleProcess EXCEPT !.pc = "validate_data", !.data = data,
                                         !.result = ProcessingResult(FALSE)]
  /\ UNCHANGED merging

\* line 82
ValidateData ==
  /\ processing.pc = "validate_data"
  /\ \E outcome \in validate_data(processing.data) :
       processing' = Stepped("validate_data", outcome, "clean_data")
  /\ UNCHANGED merging

\* line 85
CleanData ==
  /\ processing.pc = "clean_data"
  /\ \E outcome \in clean_data(processing.data) :
       processing' = [Stepped("clean_data", outcome, "_process_data") EXCEPT
                        !.cleaned_data = IF outcome.ok THEN outcome.val ELSE @]
  /\ UNCHANGED merging

\* line 88
ProcessData ==
  /\ processing.pc = "_process_data"
  /\ \E outcome \in process_data(processing.cleaned_data) :
       processing' = [Stepped("_process_data", outcome, "validate_output") EXCEPT
                        !.processed_data = IF outcome.ok THEN outcome.val ELSE @]
  /\ UNCHANGED merging

\* line 91
ValidateOutput ==
  /\ processing.pc = "validate_output"
  /\ processing' = Stepped("validate_output", validate_output(processing.processed_data),
                           "set_success")
  /\ UNCHANGED merging

\* lines 93-94
SetSuccess ==
  /\ processing.pc = "set_success"
  /\ processing' = [processing EXCEPT !.result.success = TRUE,
                                      !.result.data = processing.processed_data,
                                      !.pc = "finally"]
  /\ UNCHANGED merging

\* the except clauses in order (lines 96-106): the first whose class the
\* exception is an instance of appends one error; an exception none of them
\* catches stays pending
ExceptClauses ==
  /\ processing.pc = "except"
  /\ LET e == processing.raised
         prefix == IF is_subclass(e.cls, "ValidationError") THEN "Validation error"
                   ELSE IF is_subclass(e.cls, "ProcessingError") THEN "Processing error"
                   ELSE "Unexpected error"
     IN IF is_subclass(e.cls, "Exception")
          THEN processing' = [processing EXCEPT
                                !.result.errors = Append(@, <<prefix>> \o e.msg),
                                !.pc = "finally"]
          ELSE processing' = [processing EXCEPT !.pc = "finally"]
  /\ UNCHANGED merging

\* lines 108-117: the metadata, and a return that ends the call whatever is
\* pending
Finally ==
  /\ processing.pc = "finally"
  /\ processing' = [processing EXCEPT
                      !.result.metadata =
                        [k \in DOMAIN @ \cup {"processor", "processed_at", "config"} |->
                           CASE k = "processor" -> "class_name"
                             [] k = "processed_at" -> "now"
                             [] k = "config" -> "config"
                             [] OTHER -> @[k]],
                      !.pc = "returned"]
  /\ UNCHANGED merging

NextProcess ==
  \/ CallProcess
  \/ ValidateData
  \/ CleanData
  \/ ProcessData
  \/ ValidateOutput
  \/ SetSuccess
  \/ ExceptClauses
  \/ Finally

SpecProcess == Init /\ [][NextProcess]_vars

(***************************************************************************)
(* Properties of a call of merge.                                          *)
(***************************************************************************)
Returned == pc = "returned"

Succeeded == Returned /\ result.success

\* the frames after _to_dataframe and _apply_field_mappings lack a key field
ColumnsAfterMapping(source) == {renamed(c, merge_config.field_mappings) : c \in source.cols}

IsTable(source) == source.type \in {"DataFrame", "dict"}

KeyMissing ==
  /\ IsTable(source_a)
  /\ IsTable(source_b)
  /\ \E k \in Range(merge_config.key_fields) :
       k \notin ColumnsAfterMapping(source_a) \/ k \notin ColumnsAfterMapping(source_b)

\* the matches that name position i of a source
MatchesNaming(col, i) == {m \in DOMAIN matches.rows : PyEq(matches.rows[m][col], IntV(i - 1))}

\* the number of rows of merged_data a record of a source went into: one per
\* match that names it, or the one unmatched row when no match names it
Representations(col, i) ==
  IF MatchesNaming(col, i) = {} THEN 1 ELSE Cardinality(MatchesNaming(col, i))

\* C1: every merge that returns success=true satisfies the conservation law
\* total_records = matches_found + source_a_only + source_b_only
C1_ConservationLaw ==
  Succeeded =>
    result.stats.total_records =
      result.stats.matches_found + result.stats.source_a_only + result.stats.source_b_only

\* C2: in the matches of the fuzzy match step every record of source A and
\* every record of source B is in at most one match
C2_AtMostOneMatchPerRecord ==
  (pc = "resolve_conflicts" /\ merge_config.merge_similar) =>
    \A m, n \in DOMAIN matches.rows :
      m # n => /\ matches.rows[m]["idx_a"] # matches.rows[n]["idx_a"]
               /\ matches.rows[m]["idx_b"] # matches.rows[n]["idx_b"]

\* C3: after a successful exact-mode merge every record of source A and of
\* source B is in merged_data exactly once, folded into one matched row or
\* carried through as one unmatched row
C3_EachRecordExactlyOnce ==
  (Succeeded /\ ~merge_config.merge_similar) =>
    /\ \A i \in DOMAIN df_a.rows : Representations("idx_a", i) = 1
    /\ \A j \in DOMAIN df_b.rows : Representations("idx_b", j) = 1

\* C4: in the returned MergeResult merged_data is present iff success is true
C4_AllOrNothing == Returned => (result.merged_data # None <=> result.success)

C4_Witness ==
  /\ Returned
  /\ ~result.success
  /\ Len(matches.rows) > 0
  /\ result.merged_data = None

C6_MissingKeyRejected ==
  (Returned /\ KeyMissing) =>
    /\ ~result.success
    /\ result.merged_data = None
    /\ \E k \in Range(merge_config.key_fields) :
         \/ /\ k \notin ColumnsAfterMapping(source_a)
            /\ result.errors = <<(<<"Merge key", k, "not found in source", "A">>)>>
         \/ /\ k \notin ColumnsAfterMapping(source_b)
            /\ result.errors = <<(<<"Merge key", k, "not found in source", "B">>)>>
    /\ "find_matches" \notin Range(steps)
    /\ "resolve_conflicts" \notin Range(steps)

C6_Witness ==
  /\ Returned
  /\ KeyMissing
  /\ "id" \in ColumnsAfterMapping(source_a)
  /\ result.errors = <<(<<"Merge key", "id", "not found in source", "B">>)>>

\* a CUSTOM strategy without a resolver, or KEEP_NEWEST / KEEP_OLDEST without a
\* timestamp field
InvalidConfig ==
  \/ /\ merge_config.conflict_strategy = "CUSTOM"
     /\ merge_config.custom_resolver = None
  \/ /\ merge_config.conflict_strategy \in {"KEEP_NEWEST", "KEEP_OLDEST"}
     /\ merge_config.timestamp_field = None

\* C7: a merge with an invalid MergeConfig returns success=false
C7_InvalidConfigRejected == (Returned /\ InvalidConfig) => ~result.success

(***************************************************************************)
(* Properties of the resolution of one pair.                               *)
(***************************************************************************)
\* the pair had a conflict and the strategy returned a record
PairResolved ==
  /\ pc = "pair_resolved"
  /\ pair_conflicts.ok
  /\ DOMAIN pair_conflicts.val # {}
  /\ resolution.ok

Conflicting == DOMAIN pair_conflicts.val

Strategy == merge_config.conflict_strategy

Later(x, y) == x.kind = "int" /\ y.kind = "int" /\ x.num > y.num

\* the timestamps of the pair say that B overwrites
TimestampPicksB ==
  LET t == merge_config.timestamp_field[1]
  IN \/ Strategy = "KEEP_NEWEST" /\ Later(record_b[t], record_a[t])
     \/ Strategy = "KEEP_OLDEST" /\ Later(record_a[t], record_b[t])

\* C8: under KEEP_NEWEST (KEEP_OLDEST) with a timestamp field, every
\* conflicting field takes B's value when B's timestamp is later (earlier)
\* than A's, and A's value otherwise; one choice for all the fields
C8_TimestampStrategies ==
  (PairResolved /\ Strategy \in {"KEEP_NEWEST", "KEEP_OLDEST"}
     /\ merge_config.timestamp_field # None) =>
    \A f \in Conflicting :
      resolution.val[f] = IF TimestampPicksB THEN record_b[f] ELSE record_a[f]

C8_Witness ==
  /\ PairResolved
  /\ Strategy = "KEEP_NEWEST"
  /\ merge_config.timestamp_field = Some("ts")
  /\ Later(record_b["ts"], record_a["ts"])
  /\ Cardinality(Conflicting) >= 2
  /\ \A f \in Conflicting : resolution.val[f] = record_b[f]

\* C9: KEEP_SOURCE_A resolves to record A as it is; under KEEP_SOURCE_B every
\* field both records hold a non-null value for takes B's value
C9_SourceStrategies ==
  PairResolved =>
    /\ Strategy = "KEEP_SOURCE_A" => resolution.val = record_a
    /\ Strategy = "KEEP_SOURCE_B" =>
         \A f \in DOMAIN record_a \cap DOMAIN record_b :
           (record_a[f] # Null /\ record_b[f] # Null) => resolution.val[f] = record_b[f]

C9_Witness ==
  /\ PairResolved
  /\ Strategy = "KEEP_SOURCE_B"
  /\ "val" \in Conflicting
  /\ resolution.val["val"] = record_b["val"]

NullFields(record) == {f \in DOMAIN record : record[f] = Null}

Differ(f) ==
  /\ f \in DOMAIN record_a \cap DOMAIN record_b
  /\ record_a[f] # Null
  /\ record_b[f] # Null
  /\ record_a[f] # record_b[f]

BothOfKind(f, kind) == record_a[f].kind = kind /\ record_b[f].kind = kind

\* the list holds the elements of the union of the two lists, each once
IsUnion(v, va, vb) ==
  /\ v.kind = "list"
  /\ Range(v.chars) = Range(va.chars) \cup Range(vb.chars)
  /\ Len(v.chars) = Cardinality(Range(va.chars) \cup Range(vb.chars))

\* C11: under COMBINE a pair with a conflicting field is resolved, field by
\* field: two strings to value_a " | " value_b, two lists to their set union,
\* and a field without a conflict stays as in A
C11_Combine ==
  (pc = "pair_resolved" /\ Strategy = "COMBINE" /\ \E f \in DOMAIN record_a : Differ(f)) =>
    /\ resolution.ok
    /\ \A f \in DOMAIN record_a :
         /\ (Differ(f) /\ BothOfKind(f, "str")) =>
              resolution.val[f] = StrV(record_a[f].chars \o <<" ", "|", " ">> \o record_b[f].chars)
         /\ (Differ(f) /\ BothOfKind(f, "list")) =>
              IsUnion(resolution.val[f], record_a[f], record_b[f])
         /\ ~Differ(f) => resolution.val[f] = record_a[f]

(***************************************************************************)
(* Properties of the matched pairs of a call of merge.                     *)
(***************************************************************************)
\* the rows of matches as the loop of _resolve_conflicts sees them
MatchRows == iterrows(matches)

\* the records of match row k were found and their conflicts computed
PairOk(k) ==
  LET recs == match_records(df_a, df_b, MatchRows[k])
  IN recs.ok /\ find_conflicts(recs.val[1], recs.val[2]).ok

RecordA(k) == match_records(df_a, df_b, MatchRows[k]).val[1]

RecordB(k) == match_records(df_a, df_b, MatchRows[k]).val[2]

ConflictsOf(k) == find_conflicts(RecordA(k), RecordB(k)).val

HasConflict(k) == PairOk(k) /\ DOMAIN ConflictsOf(k) # {}

\* the loop ran and reached a pair with a conflict
ResolverCalled ==
  /\ "resolve_conflicts" \in Range(steps)
  /\ \E k \in DOMAIN MatchRows : HasConflict(k) /\ \A j \in 1..k : PairOk(j)

\* what the resolver of the configuration returns for the pair of row k
ResolverValue(k) ==
  custom_resolver(merge_config.custom_resolver[1], RecordA(k), RecordB(k), ConflictsOf(k))

Resolver(name) ==
  /\ merge_config.conflict_strategy = "CUSTOM"
  /\ merge_config.custom_resolver = Some(name)

\* the rows of matches that have a conflict, in order
ConflictRows == SelectSeq([k \in DOMAIN MatchRows |-> k], HasConflict)

\* C12: under CUSTOM with a resolver, the resolved record of every matched
\* pair with a conflict is the value the resolver returned; a resolver that
\* raises makes merge return success=false with the resolver's message in errors
C12_CustomResolver ==
  /\ (Succeeded /\ Resolver("take_b")) =>
       /\ Len(result.conflicts) = Len(ConflictRows)
       /\ \A i \in DOMAIN ConflictRows :
            LET k == ConflictRows[i]
            IN /\ result.conflicts[i].resolution = ResolverValue(k).val
               /\ \A f \in DOMAIN ResolverValue(k).val :
                    resolved_data.rows[k][f] = ResolverValue(k).val[f]
  /\ (Returned /\ Resolver("raising") /\ ResolverCalled) =>
       /\ ~result.success
       /\ result.merged_data = None
       /\ result.errors = <<ResolverValue(ConflictRows[1]).exc.msg>>

C12_Witness ==
  /\ Succeeded
  /\ Resolver("take_b")
  /\ Len(result.conflicts) = 1
  /\ result.conflicts[1].fields["val"] = <<StrV(<<"x">>), StrV(<<"y">>)>>
  /\ result.conflicts[1].resolution["val"] = StrV(<<"y">>)

\* the table merge returned
MergedData == result.merged_data[1]

\* C13: after a successful merge no field of ignored_fields is a field of a
\* record of merged_data
C13_IgnoredFieldsNeverLeak ==
  Succeeded =>
    /\ MergedData.cols \cap merge_config.ignored_fields = {}
    /\ \A i \in DOMAIN MergedData.rows :
         DOMAIN MergedData.rows[i] \cap merge_config.ignored_fields = {}

C13_Witness ==
  /\ Succeeded
  /\ merge_config.ignored_fields = {"val"}
  /\ "val" \in source_a.cols \cap source_b.cols
  /\ Len(matches.rows) = 1
  /\ Len(MergedData.rows) = 2
  /\ "val" \in resolved_data.cols

\* a source with the key columns (after mapping) and no rows, against a source
\* with the key columns and at least one row
EmptyAgainst(empty, full) ==
  /\ IsTable(empty)
  /\ IsTable(full)
  /\ ~KeyMissing
  /\ Len(empty.rows) = 0
  /\ Len(full.rows) > 0

\* C14: merging a non-empty source against an empty one that has the key
\* columns succeeds with no matches, every record of the non-empty side
\* counted as unmatched and carried into merged_data, in exact and fuzzy mode
C14_EmptySource ==
  (Returned /\ rapidfuzz_installed) =>
    /\ EmptyAgainst(source_b, source_a) =>
         /\ result.success
         /\ result.stats.matches_found = 0
         /\ result.stats.source_a_only = Len(source_a.rows)
         /\ result.stats.source_b_only = 0
         /\ Len(MergedData.rows) = Len(source_a.rows)
    /\ EmptyAgainst(source_a, source_b) =>
         /\ result.success
         /\ result.stats.matches_found = 0
         /\ result.stats.source_a_only = 0
         /\ result.stats.source_b_only = Len(source_b.rows)
         /\ Len(MergedData.rows) = Len(source_b.rows)

\* source B holds the columns and rows of source A
SelfMerge ==
  /\ IsTable(source_a)
  /\ IsTable(source_b)
  /\ source_b.cols = source_a.cols
  /\ source_b.rows = source_a.rows
  /\ ~KeyMissing

\* C15: merging a source with itself under case_sensitive=false yields
\* matches_found = len(A) and no unmatched record on either side
C15_SelfMerge ==
  (Returned /\ SelfMerge /\ ~merge_config.case_sensitive /\ rapidfuzz_installed) =>
    /\ DOMAIN result.stats = {"total_records", "matches_found", "conflicts_resolved",
                              "source_a_only", "source_b_only"}
    /\ result.stats.matches_found = Len(source_a.rows)
    /\ result.stats.source_a_only = 0
    /\ result.stats.source_b_only = 0

(***************************************************************************)
(* Properties of the fuzzy match step.                                     *)
(***************************************************************************)
\* the similarity of two key values as a fraction: the string ratio for
\* strings, 1 for equal and 0 for unequal values otherwise
Similarity(va, vb) ==
  IF va.kind = "str" /\ vb.kind = "str" THEN fuzz_ratio(va.chars, vb.chars)
  ELSE IF PyEq(va, vb) THEN <<1, 1>> ELSE <<0, 1>>

\* the arithmetic mean of the similarities over the one or two key fields
MeanSimilarity(i, j) ==
  LET keys == merge_config.key_fields
      s1 == Similarity(df_a.rows[i][keys[1]], df_b.rows[j][keys[1]])
      s2 == IF Len(keys) = 2 THEN Similarity(df_a.rows[i][keys[2]], df_b.rows[j][keys[2]])
                             ELSE <<0, 1>>
  IN <<s1[1] * s2[2] + s2[1] * s1[2], s1[2] * s2[2] * Len(keys)>>

AtLeastThreshold(mean) ==
  mean[1] * merge_config.similarity_threshold.den >=
    merge_config.similarity_threshold.num * mean[2]

Reported(i, j) ==
  \E m \in DOMAIN matches.rows :
    matches.rows[m]["idx_a"] = IntV(i - 1) /\ matches.rows[m]["idx_b"] = IntV(j - 1)

\* _find_similar_matches has returned
FuzzyMatched == pc = "resolve_conflicts" /\ merge_config.merge_similar

\* C16: in fuzzy mode a pair of records is reported as a match iff the mean
\* over key_fields of the per-field similarity is >= similarity_threshold
C16_FuzzyThreshold ==
  FuzzyMatched =>
    \A i \in DOMAIN df_a.rows : \A j \in DOMAIN df_b.rows :
      Reported(i, j) <=> AtLeastThreshold(MeanSimilarity(i, j))

\* a pair whose mean equals the threshold is reported, one below it is not
C16_Witness ==
  /\ FuzzyMatched
  /\ Len(merge_config.key_fields) = 2
  /\ Len(df_b.rows) = 2
  /\ Reported(1, 1)
  /\ MeanSimilarity(1, 1)[1] * merge_config.similarity_threshold.den =
       merge_config.similarity_threshold.num * MeanSimilarity(1, 1)[2]
  /\ ~Reported(1, 2)

\* C17: after merge is called, no step changes the caller's source_a or
\* source_b, whether the call succeeds or fails
C17_SourcesUnchanged ==
  [][pc # "idle" => (source_a' = source_a /\ source_b' = source_b)]_vars

\* the keys were lower-cased in the working frames and the sources still hold
\* them as the caller gave them
C17_Witness ==
  /\ Succeeded
  /\ ~merge_config.case_sensitive
  /\ "id" \in source_a.cols \cap source_b.cols
  /\ Len(source_a.rows) > 0
  /\ Len(source_b.rows) > 0
  /\ source_a.rows[1]["id"] = StrV(<<"A", "b">>)
  /\ df_a.rows[1]["id"] = StrV(<<"a", "b">>)
  /\ source_b.rows[1]["id"] = StrV(<<"A", "b">>)
  /\ df_b.rows[1]["id"] = StrV(<<"a", "b">>)

\* C20: in a successful merge every record of merged_data holds every key
\* field with a non-null value
C20_KeysNonNull ==
  Succeeded =>
    \A i \in DOMAIN MergedData.rows : \A k \in Range(merge_config.key_fields) :
      /\ k \in DOMAIN MergedData.rows[i]
      /\ MergedData.rows[i][k] # Null

(***************************************************************************)
(* Properties of several calls on one instance.                            *)
(***************************************************************************)
ResultOf(k) == heap[calls[k].result]

Alone(k) ==
  run_alone(calls[k].source_a, calls[k].source_b, calls[k].merge_config,
            calls[k].rapidfuzz_installed)

ReturnedCall(k) == calls[k].pc = "returned"

SameInputs(i, j) ==
  /\ calls[i].source_a = calls[j].source_a
  /\ calls[i].source_b = calls[j].source_b
  /\ calls[i].merge_config = calls[j].merge_config

\* call i had returned when call j was made
Before(i, j) ==
  \E m, n \in DOMAIN events :
    m < n /\ events[m] = <<"return", i>> /\ events[n] = <<"call", j>>

\* both calls were made before either returned
Overlapped == Len(events) >= 2 /\ events[1][1] = "call" /\ events[2][1] = "call"

\* C18: a call made after another call on the same instance has returned
\* returns what it returns on a new instance, and the same MergeResult as the
\* earlier call when the inputs and the configuration are the same
C18_HistoryIndependent ==
  \A i, j \in Calls :
    (Before(i, j) /\ ReturnedCall(j)) =>
      /\ ResultOf(j) = Alone(j)
      /\ SameInputs(i, j) => ResultOf(j) = ResultOf(i)

C18_Witness ==
  /\ Before(1, 2)
  /\ ReturnedCall(2)
  /\ SameInputs(1, 2)
  /\ calls[1].result # calls[2].result
  /\ Len(ResultOf(1).conflicts) = 1
  /\ ResultOf(2) = ResultOf(1)

\* C19: two calls interleaved on one instance each return the MergeResult
\* they return when run alone, under every interleaving of their statements
C19_ConcurrentCalls ==
  \A k \in Calls : (Overlapped /\ ReturnedCall(k)) => ResultOf(k) = Alone(k)

C19_Witness ==
  /\ Overlapped
  /\ ReturnedCall(1)
  /\ ReturnedCall(2)
  /\ events[3] = <<"return", 2>>
  /\ ResultOf(1).success
  /\ Len(ResultOf(1).conflicts) = 1
  /\ ~ResultOf(2).success
  /\ Len(ResultOf(2).errors) = 1
  /\ ResultOf(1) = Alone(1)
  /\ ResultOf(2) = Alone(2)

(***************************************************************************)
(* Properties of the conflicts of the matched pairs.                       *)
(***************************************************************************)
\* the loop of _resolve_conflicts went through every match
Resolved == pc = "handle_unmatched" \/ "handle_unmatched" \in Range(steps)

\* the non-key fields both records of row k hold, with two non-null, unequal
\* values
ExpectedConflicts(k) ==
  {f \in (DOMAIN RecordA(k) \cap DOMAIN RecordB(k)) \ Range(merge_config.key_fields) :
     /\ RecordA(k)[f] # Null
     /\ RecordB(k)[f] # Null
     /\ RecordA(k)[f] # RecordB(k)[f]}

\* C21: the conflicting fields of a matched pair are exactly the non-key
\* fields both records hold with two non-null, unequal values; a key field is
\* never among them
C21_ConflictingFields ==
  Resolved =>
    /\ \A k \in DOMAIN MatchRows : DOMAIN ConflictsOf(k) = ExpectedConflicts(k)
    /\ \A i \in DOMAIN result.conflicts :
         DOMAIN result.conflicts[i].fields \cap Range(merge_config.key_fields) = {}

\* record holds field f with a non-null value and other does not
OnlyIn(f, record, other) ==
  /\ f \in DOMAIN record
  /\ record[f] # Null
  /\ (f \notin DOMAIN other \/ other[f] = Null)

\* C22: under every built-in strategy, with or without a conflict, the merged
\* record of a pair holds a field only one side has a non-null value for, with
\* that side's value
C22_OneSidedFieldsCarried ==
  (pc = "pair_resolved" /\ Strategy # "CUSTOM" /\ resolution.ok) =>
    /\ \A f \in DOMAIN record_b :
         OnlyIn(f, record_b, record_a) =>
           f \in DOMAIN resolution.val /\ resolution.val[f] = record_b[f]
    /\ \A f \in DOMAIN record_a :
         OnlyIn(f, record_a, record_b) =>
           f \in DOMAIN resolution.val /\ resolution.val[f] = record_a[f]

\* the fields both records of row k hold with two non-null, unequal values
Conflicted(k) ==
  {f \in DOMAIN RecordA(k) \cap DOMAIN RecordB(k) :
     RecordA(k)[f] # Null /\ RecordB(k)[f] # Null /\ RecordA(k)[f] # RecordB(k)[f]}

\* the rows of matches whose pair has a conflicting field, in order
RowsInConflict == SelectSeq([k \in DOMAIN MatchRows |-> k], LAMBDA k : Conflicted(k) # {})

NotCombinable(k, f) ==
  /\ ~(RecordA(k)[f].kind = "str" /\ RecordB(k)[f].kind = "str")
  /\ ~(RecordA(k)[f].kind = "list" /\ RecordB(k)[f].kind = "list")

\* a warning is a message, a sequence of words; it is about a field it names
WarnedAbout(f) == \E w \in Range(result.warnings) : f \in Range(w)

\* C24: under COMBINE a conflicting field whose values are neither both
\* strings nor both lists keeps A's value in the resolved record, and
\* warnings holds a warning about the field
C24_CombineFallbackWarns ==
  (Succeeded /\ merge_config.conflict_strategy = "COMBINE") =>
    \A i \in DOMAIN RowsInConflict :
      \A f \in Conflicted(RowsInConflict[i]) :
        NotCombinable(RowsInConflict[i], f) =>
          /\ result.conflicts[i].resolution[f] = RecordA(RowsInConflict[i])[f]
          /\ WarnedAbout(f)

(***************************************************************************)
(* Properties of the exact match step.                                     *)
(***************************************************************************)
\* _find_matches has returned the join
ExactMatched == pc = "resolve_conflicts" /\ ~merge_config.merge_similar

\* the value the caller's record i of a source holds for key field k: the
\* field that field_mappings names k
CallerKey(source, i, k) ==
  source.rows[i][CHOOSE c \in source.cols : renamed(c, merge_config.field_mappings) = k]

\* a string without regard to letter case
IgnoringCase(v) ==
  IF v.kind = "str"
    THEN [v EXCEPT !.chars = [n \in DOMAIN v.chars |->
                                CASE v.chars[n] = "A" -> "a"
                                  [] v.chars[n] = "B" -> "b"
                                  [] OTHER -> v.chars[n]]]
    ELSE v

KeysEqual(i, j) ==
  \A k \in Range(merge_config.key_fields) :
    IF merge_config.case_sensitive
      THEN CallerKey(source_a, i, k) = CallerKey(source_b, j, k)
      ELSE IgnoringCase(CallerKey(source_a, i, k)) = IgnoringCase(CallerKey(source_b, j, k))

\* the pairs (record of A, record of B) equal on every key field, A's records
\* in order and B's in order for each
EqualPairs ==
  SelectSeq(pairs_in_order(Len(source_a.rows), Len(source_b.rows)),
            LAMBDA p : KeysEqual(p[1], p[2]))

\* row m of matches is the join of record i of A and record j of B
JoinOf(m, i, j) ==
  \A c \in matches.cols \ {"_merge"} :
    \/ c \in df_a.cols /\ matches.rows[m][c] = df_a.rows[i][c]
    \/ c \in df_b.cols /\ matches.rows[m][c] = df_b.rows[j][c]
    \/ \E n \in df_a.cols \cap df_b.cols :
         \/ c = with_suffix(n, "_a") /\ matches.rows[m][c] = df_a.rows[i][n]
         \/ c = with_suffix(n, "_b") /\ matches.rows[m][c] = df_b.rows[j][n]

\* C25: in exact mode the matches are the pairs of a record of A and a record
\* of B that are equal on every key field, string keys compared without
\* regard to case unless case_sensitive; no other field takes part
C25_ExactMatching ==
  ExactMatched =>
    /\ Len(matches.rows) = Len(EqualPairs)
    /\ \A m \in DOMAIN EqualPairs : JoinOf(m, EqualPairs[m][1], EqualPairs[m][2])

(***************************************************************************)
(* Properties of merged_data.                                              *)
(***************************************************************************)
\* the records of A (of B) that are in no pair of EqualPairs, in source order
UnmatchedA ==
  SelectSeq([i \in DOMAIN source_a.rows |-> i],
            LAMBDA i : \A j \in DOMAIN source_b.rows : ~KeysEqual(i, j))

UnmatchedB ==
  SelectSeq([j \in DOMAIN source_b.rows |-> j],
            LAMBDA j : \A i \in DOMAIN source_a.rows : ~KeysEqual(i, j))

\* a record as a row of merged_data: the fields of merged_data, null where
\* the record has none
AsRow(record) ==
  [c \in MergedData.cols |-> IF c \in DOMAIN record THEN record[c] ELSE Null]

\* C26: merged_data of a successful merge holds the resolved records in the
\* order of the matches, then the unmatched records of A in source order,
\* then the unmatched records of B in source order; the rows are held by
\* position, numbered from 0 without a gap
C26_ConcatenationOrder ==
  Succeeded =>
    MergedData.rows =
      [k \in DOMAIN resolved_data.rows |-> AsRow(resolved_data.rows[k])]
        \o [n \in DOMAIN UnmatchedA |-> AsRow(df_a.rows[UnmatchedA[n]])]
        \o [n \in DOMAIN UnmatchedB |-> AsRow(df_b.rows[UnmatchedB[n]])]

\* row r of merged_data holds the caller's record as it was given: every
\* field under its mapped name with the caller's value, the ignored fields
\* left out
AsGiven(r, record) ==
  \A c \in DOMAIN record :
    LET n == renamed(c, merge_config.field_mappings)
    IN n \notin merge_config.ignored_fields =>
         n \in MergedData.cols /\ MergedData.rows[r][n] = record[c]

\* C27: a record of A or of B without a match is a row of merged_data with
\* the values the caller gave, the key fields included
C27_UnmatchedAsGiven ==
  Succeeded =>
    /\ \A n \in DOMAIN UnmatchedA :
         \E r \in DOMAIN MergedData.rows : AsGiven(r, source_a.rows[UnmatchedA[n]])
    /\ \A n \in DOMAIN UnmatchedB :
         \E r \in DOMAIN MergedData.rows : AsGiven(r, source_b.rows[UnmatchedB[n]])

\* C28: after a successful merge source_a_only is the number of records of A
\* in no match, source_b_only that of B; neither is negative nor above the
\* number of records of its source
C28_OnlyCounts ==
  Succeeded =>
    /\ result.stats.source_a_only = Len(UnmatchedA)
    /\ result.stats.source_b_only = Len(UnmatchedB)
    /\ result.stats.source_a_only \in 0..Len(source_a.rows)
    /\ result.stats.source_b_only \in 0..Len(source_b.rows)

\* the fields of the two sources after field mapping
MappedFields == ColumnsAfterMapping(source_a) \cup ColumnsAfterMapping(source_b)

\* C29: every field of source A or source B (after mapping) that is not in
\* ignored_fields is a field of merged_data, whatever its name
C29_CleanupKeepsCallerFields ==
  Succeeded => MappedFields \ merge_config.ignored_fields \subseteq MergedData.cols

(***************************************************************************)
(* Properties of DataProcessor.process.                                    *)
(***************************************************************************)
ProcessSteps == <<"validate_data", "clean_data", "_process_data", "validate_output">>

\* the prefix of an error for an exception of a class
PrefixFor(cls) ==
  IF cls = "ValidationError" THEN "Validation error"
  ELSE IF cls = "ProcessingError" THEN "Processing error"
  ELSE "Unexpected error"

\* C30: process returns a ProcessingResult after running validate_data,
\* clean_data, _process_data, validate_output in this order up to the first
\* one that raises; success is true and data is set iff all four completed;
\* otherwise data is None and errors holds one error with the prefix of the
\* exception's class; metadata has processor and processed_at either way
C30_ProcessPipeline ==
  processing.pc = "returned" =>
    LET r == processing.result
        done == processing.trace
    IN /\ Len(done) <= Len(ProcessSteps)
       /\ \A n \in DOMAIN done : done[n] = ProcessSteps[n]
       /\ (processing.raised = NoExc) <=> (done = ProcessSteps /\ r.success)
       /\ r.success <=> r.data # None
       /\ r.success => r.data = processing.processed_data /\ r.errors = <<>>
       /\ ~r.success =>
            /\ r.data = None
            /\ Len(r.errors) = 1
            /\ r.errors[1][1] = PrefixFor(processing.raised.cls)
       /\ {"processor", "processed_at"} \subseteq DOMAIN r.metadata

====
